---- MODULE Spec2Model ----
(***************************************************************************)
(* Session state engine of the trivia card game (GameProvider): question   *)
(* draw, per-category used tracking, discard pile with its cursor,         *)
(* hydration from the persisted snapshot, new game and end game.           *)
(***************************************************************************)
EXTENDS Integers, Sequences, FiniteSets, TLC

(* ------------------------------ bounds --------------------------------- *)

\* size of the question catalog (questions.json); ids are 1..NumQuestions
NumQuestions == 3

(* ----------------------------- constants ------------------------------- *)

\* currentQuestionId === null
NullId == 0

\* currentCategory === null, categoryResultId === null, lastOutcome === null,
\* chooseCategoryMode === null, and a function returning null
Null == "null"

CATEGORY_IDS == <<"prylar", "personer", "underhallning", "blandat">>

Categories == {CATEGORY_IDS[i] : i \in 1..Len(CATEGORY_IDS)}

ChooseOutcomes == {"choose-user", "choose-opponent"}

FlowSteps ==
  {"home", "dice", "category-result", "choose-category", "question", "discard-pile"}

\* the only value validatePersistedState accepts for schemaVersion
SchemaVersion == 1

(* ------------------------------ catalog -------------------------------- *)

allQuestions == 1..NumQuestions

\* category of a catalog question: two questions of prylar, then one per
\* further category, the rest in blandat
CategoryOf(q) ==
  IF q <= 2 THEN "prylar"
  ELSE IF q = 3 THEN "personer"
  ELSE IF q = 4 THEN "underhallning"
  ELSE "blandat"

\* an id that no catalog question has (a question removed by a content update)
StaleId == NumQuestions + 1

(* ------------------------------- state --------------------------------- *)

VARIABLES
  isHydrated,               \* useState(false)
  hydratePc,                \* position of the hydrate effect
  loadResult,               \* what loadPersistedGameState resolved with, until hydrate continues
  flowStep,
  chooseCategoryMode,
  categoryResultId,
  isFlipped,
  hasRevealedAnswer,
  gameState,
  currentCategory,          \* id of the selected category, or Null
  currentQuestionId,
  usedQuestionsByCategory,  \* category id -> sequence of question ids
  discardPile,              \* sequence of question ids, oldest first
  discardIndex,
  sessionId,
  lastOutcome,
  stored,                   \* the storage entry: <<>> (absent) or <<JSON document>>
  inFlight,                 \* async operation suspended at its first await
  finalOutcomeRef,          \* DiceRoller: the outcome of the roll in progress, or Null
  rollUsed,                 \* the usedQuestionsByCategory of the render whose onRollComplete the roll calls
  timers,                   \* debouncedSave: the states of the setTimeout callbacks not yet run
  timeoutRef,               \* debouncedSave: <<>> or <<state of the timer last scheduled>>
  persistDeps,              \* persist effect: the dependencies it last ran with
  last,                     \* history: the last operation, its argument, its result
  completedSince,           \* history: ids completed per category since its used list was last cleared
  navProbe                  \* history: current() before a goOlder, and how far the goOlder/goNewer pair got

hydrateVars == <<hydratePc, loadResult>>

engineVars ==
  <<isHydrated, hydrateVars, flowStep, chooseCategoryMode, categoryResultId,
    isFlipped, hasRevealedAnswer, gameState, currentCategory, currentQuestionId,
    usedQuestionsByCategory, discardPile, discardIndex, sessionId, lastOutcome>>

diceVars == <<finalOutcomeRef, rollUsed>>

persistVars == <<timers, timeoutRef, persistDeps>>

vars ==
  <<engineVars, stored, inFlight, diceVars, persistVars, last, completedSince,
    navProbe>>

(* ------------------------------ helpers -------------------------------- *)

Range(s) == {s[i] : i \in 1..Len(s)}

Includes(s, x) == x \in Range(s)

Min(a, b) == IF a <= b THEN a ELSE b

\* Array.prototype.filter with the predicate "id is in keep"
RECURSIVE FilterIn(_, _)
FilterIn(s, keep) ==
  IF s = <<>> THEN <<>>
  ELSE IF Head(s) \in keep
       THEN <<Head(s)>> \o FilterIn(Tail(s), keep)
       ELSE FilterIn(Tail(s), keep)

IsPrefix(s, t) == Len(s) <= Len(t) /\ SubSeq(t, 1, Len(s)) = s

EmptyUsed == [c \in Categories |-> <<>>]

NoProbe == [phase |-> 0, from |-> 0, before |-> NullId]

Note(op, arg, ret) == [op |-> op, arg |-> arg, ret |-> ret]

(* -------------------------- derived queries ---------------------------- *)

\* currentQuestion = allQuestions.find(q => q.id === currentQuestionId) || null
currentQuestion ==
  IF currentQuestionId # NullId /\ currentQuestionId \in allQuestions
  THEN currentQuestionId ELSE NullId

getTotalQuestionsInCategory(categoryId) ==
  Cardinality({q \in allQuestions : CategoryOf(q) = categoryId})

getRemainingCards(categoryId) ==
  getTotalQuestionsInCategory(categoryId) - Len(usedQuestionsByCategory[categoryId])

isCategoryEmpty(categoryId) == getRemainingCards(categoryId) = 0

\* drawRandomOutcome without its check for a fully used deck
areAllCategoriesEmptyUnchecked == FALSE

areAllCategoriesEmpty == \A c \in Categories : isCategoryEmpty(c)

\* the six faces of the dice, whatever is left in the categories
getAvailableOutcomesAllFaces == Categories \cup ChooseOutcomes

\* the outcomes the dice may land on, as the set of the array's elements
getAvailableOutcomes ==
  {c \in Categories : ~isCategoryEmpty(c)} \cup ChooseOutcomes

\* every value drawRandomOutcome can return in the current state
drawRandomOutcomeResults ==
  IF areAllCategoriesEmpty THEN {Null}
  ELSE IF getAvailableOutcomes = {} THEN {Null}
  ELSE getAvailableOutcomes

\* getAvailableQuestions without its filter on the used list
getAvailableQuestionsIgnoringUsed(categoryId) ==
  {q \in allQuestions : CategoryOf(q) = categoryId}

getAvailableQuestions(categoryId) ==
  {q \in allQuestions :
     CategoryOf(q) = categoryId /\ ~Includes(usedQuestionsByCategory[categoryId], q)}

\* every value drawRandomQuestion(categoryId) can return in the current state
drawRandomQuestionResults(categoryId) ==
  IF getAvailableQuestions(categoryId) = {} THEN {NullId}
  ELSE getAvailableQuestions(categoryId)

\* markQuestionAsUsed that loses the update
markQuestionAsUsedDropped(prev, q) == prev

markQuestionAsUsed(prev, q) ==
  IF Includes(prev[CategoryOf(q)], q) THEN prev
  ELSE [prev EXCEPT ![CategoryOf(q)] = Append(@, q)]

\* addToDiscardPile that moves a card already in the pile to the newest end
addToDiscardPileMovingToEnd(prev, questionId) ==
  Append(FilterIn(prev, Range(prev) \ {questionId}), questionId)

\* addToDiscardPile that leaves the pile as it is
addToDiscardPileDropped(prev, questionId) == prev

\* the setDiscardPile updater of addToDiscardPile
addToDiscardPile(prev, questionId) ==
  IF Includes(prev, questionId) THEN prev ELSE Append(prev, questionId)

\* index 0 = newest: reversedPile[index]
getDiscardCard(pile, index) ==
  IF Len(pile) = 0 THEN NullId
  ELSE IF index < 0 \/ index >= Len(pile) THEN NullId
  ELSE IF pile[Len(pile) - index] \in allQuestions THEN pile[Len(pile) - index]
  ELSE NullId

getCurrentDiscardCard == getDiscardCard(discardPile, discardIndex)

\* navigateDiscardPile with its lower bound check off by one
navigateIndexOffByOne(pile, index, direction) ==
  IF index + direction <= 0 \/ index + direction >= Len(pile)
  THEN index
  ELSE index + direction

\* navigateDiscardPile without its check against the length of the pile
navigateIndexUnbounded(pile, index, direction) ==
  IF index + direction < 0
  THEN index
  ELSE index + direction

\* the index navigateDiscardPile(direction) leaves in discardIndex
navigateIndex(pile, index, direction) ==
  IF index + direction < 0 \/ index + direction >= Len(pile)
  THEN index
  ELSE index + direction

(* --------------------------- persisted state --------------------------- *)

getInitialPersistedState ==
  [schemaVersion |-> SchemaVersion,
   sessionId |-> "generated",
   selectedCategoryId |-> Null,
   currentQuestionId |-> NullId,
   isFlipped |-> FALSE,
   hasRevealedAnswer |-> FALSE,
   usedQuestionsByCategory |-> EmptyUsed,
   discardPileIds |-> <<>>,
   discardActiveIndex |-> 0,
   lastOutcome |-> Null,
   flowStep |-> "home",
   chooseCategoryMode |-> Null,
   categoryResultId |-> Null]

(* JSON: a value of the stored document is its typeof tag and its content *)

JValue(t, n, s, a) == [t |-> t, n |-> n, s |-> s, a |-> a]

JNull == JValue("null", 0, "", <<>>)

JUndefined == JValue("undefined", 0, "", <<>>)

JNumber(n) == JValue("number", n, "", <<>>)

JString(s) == JValue("string", 0, s, <<>>)

JBoolean(b) == JValue("boolean", IF b THEN 1 ELSE 0, "", <<>>)

JArray(a) == JValue("array", 0, "", a)

\* a number | null field and a string | null field
JNumberOrNull(n) == IF n = NullId THEN JNull ELSE JNumber(n)

JStringOrNull(s) == IF s = Null THEN JNull ELSE JString(s)

\* Record<string, number[]>
JUsed(used) == [t |-> "object", o |-> [c \in Categories |-> JArray(used[c])]]

\* JSON.stringify(state): the document savePersistedGameState stores
JSON_stringify(state) ==
  [schemaVersion |-> JNumber(state.schemaVersion),
   sessionId |-> JString(state.sessionId),
   selectedCategoryId |-> JStringOrNull(state.selectedCategoryId),
   currentQuestionId |-> JNumberOrNull(state.currentQuestionId),
   isFlipped |-> JBoolean(state.isFlipped),
   hasRevealedAnswer |-> JBoolean(state.hasRevealedAnswer),
   usedQuestionsByCategory |-> JUsed(state.usedQuestionsByCategory),
   discardPileIds |-> JArray(state.discardPileIds),
   discardActiveIndex |-> JNumber(state.discardActiveIndex),
   lastOutcome |-> JStringOrNull(state.lastOutcome),
   flowStep |-> JString(state.flowStep),
   chooseCategoryMode |-> JStringOrNull(state.chooseCategoryMode),
   categoryResultId |-> JStringOrNull(state.categoryResultId)]

\* the fields of a well-shaped document, as JSON.parse hands them to the code
JSON_parse(doc) ==
  [schemaVersion |-> doc.schemaVersion.n,
   sessionId |-> doc.sessionId.s,
   selectedCategoryId |->
     IF doc.selectedCategoryId.t = "string" THEN doc.selectedCategoryId.s ELSE Null,
   currentQuestionId |->
     IF doc.currentQuestionId.t = "number" THEN doc.currentQuestionId.n ELSE NullId,
   isFlipped |-> doc.isFlipped.n = 1,
   hasRevealedAnswer |-> doc.hasRevealedAnswer.n = 1,
   usedQuestionsByCategory |->
     [c \in Categories |-> doc.usedQuestionsByCategory.o[c].a],
   discardPileIds |-> doc.discardPileIds.a,
   discardActiveIndex |-> doc.discardActiveIndex.n,
   lastOutcome |-> IF doc.lastOutcome.t = "string" THEN doc.lastOutcome.s ELSE Null,
   flowStep |-> doc.flowStep.s,
   chooseCategoryMode |->
     IF doc.chooseCategoryMode.t = "string" THEN doc.chooseCategoryMode.s ELSE Null,
   categoryResultId |->
     IF doc.categoryResultId.t = "string" THEN doc.categoryResultId.s ELSE Null]

\* validatePersistedState that tests the session id for truthiness
validatePersistedStateTruthySessionId(data) ==
  /\ data.sessionId.t = "string"
  /\ data.sessionId.s # ""
  /\ data.schemaVersion.t = "number"
  /\ data.schemaVersion.n = SchemaVersion
  /\ data.discardPileIds.t = "array"
  /\ data.usedQuestionsByCategory.t = "object"

\* validatePersistedState(parsed): what it checks of the parsed document
validatePersistedState(data) ==
  /\ data.sessionId.t = "string"
  /\ data.schemaVersion.t = "number"
  /\ data.schemaVersion.n = SchemaVersion
  /\ data.discardPileIds.t = "array"
  /\ data.usedQuestionsByCategory.t = "object"

\* an entry whose text is not JSON: JSON.parse throws on it
Unparsable == [text |-> "{"]

\* JSON.parse(jsonValue) returns, and validatePersistedState accepts the result
Accepted(doc) == doc # Unparsable /\ validatePersistedState(doc)

\* what loadPersistedGameState returns: <<>> for null, else <<document>>
loadPersistedGameState ==
  IF stored = <<>> THEN <<>>
  ELSE IF Accepted(stored[1]) THEN stored
  ELSE <<>>

\* savePersistedGameState(state): the storage entry it leaves
savePersistedGameState(state) == <<JSON_stringify(state)>>

\* the storage entry after loadPersistedGameState: an invalid entry is removed
storedAfterLoad ==
  IF stored # <<>> /\ ~Accepted(stored[1]) THEN <<>> ELSE stored

\* buildPersistedState(): the snapshot of the current state
buildPersistedState ==
  [schemaVersion |-> SchemaVersion,
   sessionId |-> sessionId,
   selectedCategoryId |-> currentCategory,
   currentQuestionId |-> currentQuestionId,
   isFlipped |-> isFlipped,
   hasRevealedAnswer |-> hasRevealedAnswer,
   usedQuestionsByCategory |-> usedQuestionsByCategory,
   discardPileIds |-> discardPile,
   discardActiveIndex |-> discardIndex,
   lastOutcome |-> lastOutcome,
   flowStep |-> flowStep,
   chooseCategoryMode |-> chooseCategoryMode,
   categoryResultId |-> categoryResultId]

\* the dependency list of the persist effect
currentDeps == [isHydrated |-> isHydrated, state |-> buildPersistedState]

(* ------------------------------- Init ---------------------------------- *)

InitEngine ==
  /\ isHydrated = FALSE
  /\ hydratePc = "loading"
  /\ loadResult = <<>>
  /\ flowStep = "home"
  /\ chooseCategoryMode = Null
  /\ categoryResultId = Null
  /\ isFlipped = FALSE
  /\ hasRevealedAnswer = FALSE
  /\ gameState = "idle"
  /\ currentCategory = Null
  /\ currentQuestionId = NullId
  /\ usedQuestionsByCategory = EmptyUsed
  /\ discardPile = <<>>
  /\ discardIndex = 0
  /\ sessionId = ""
  /\ lastOutcome = Null
  /\ inFlight = "none"
  /\ finalOutcomeRef = Null
  /\ rollUsed = EmptyUsed
  /\ timers = {}
  /\ timeoutRef = <<>>
  /\ persistDeps = currentDeps
  /\ last = Note("init", Null, Null)
  /\ completedSince = [c \in Categories |-> {}]
  /\ navProbe = NoProbe

\* first launch: nothing in storage
Init == InitEngine /\ stored = <<>>

(* ------------------------------ hydrate -------------------------------- *)

cleanedUsedQuestions(persisted) ==
  [c \in Categories |-> FilterIn(persisted.usedQuestionsByCategory[c], allQuestions)]

\* the stored history taken over as it is
cleanedDiscardPileUnfiltered(persisted) == persisted.discardPileIds

cleanedDiscardPile(persisted) == FilterIn(persisted.discardPileIds, allQuestions)

validCurrentQuestionId(persisted) ==
  IF persisted.currentQuestionId # NullId /\ persisted.currentQuestionId \notin allQuestions
  THEN NullId ELSE persisted.currentQuestionId

validFlowStep(persisted) ==
  IF persisted.currentQuestionId # NullId /\ persisted.currentQuestionId \notin allQuestions
  THEN "dice" ELSE persisted.flowStep

\* the discardIndex hydrate restores
hydratedDiscardIndex(persisted) ==
  Min(persisted.discardActiveIndex, Len(cleanedDiscardPile(persisted)) - 1)

\* "if we had cleaned data, save it back"
needsSaveBack(persisted) ==
  \/ persisted.currentQuestionId # validCurrentQuestionId(persisted)
  \/ persisted.flowStep # validFlowStep(persisted)

savedBack(persisted) ==
  [persisted EXCEPT !.currentQuestionId = validCurrentQuestionId(persisted),
                    !.flowStep = validFlowStep(persisted),
                    !.usedQuestionsByCategory = cleanedUsedQuestions(persisted),
                    !.discardPileIds = cleanedDiscardPile(persisted)]

hasProgress(persisted) ==
  \/ Len(cleanedDiscardPile(persisted)) > 0
  \/ \E c \in Categories : Len(cleanedUsedQuestions(persisted)[c]) > 0

\* ids.filter is called on a per-topic value that is not an array
hydrateThrows(doc) ==
  \E c \in Categories : doc.usedQuestionsByCategory.o[c].t # "array"

\* what loadPersistedGameState leaves in storage, given whether
\* AsyncStorage.getItem and removeItem succeed
storedAfterLoadIO(getOk, removeOk) ==
  IF getOk
  THEN (IF loadPersistedGameState = <<>>
        THEN (IF removeOk THEN storedAfterLoad ELSE stored)
        ELSE stored)
  ELSE (IF removeOk THEN <<>> ELSE stored)

\* hydrate, from the value loadPersistedGameState resolved with to its next
\* await (or its end), given what storage holds by then and whether
\* AsyncStorage.setItem succeeds
hydrateContinuation(loaded, storedNow, setOk) ==
  /\ IF loaded = <<>>
     THEN /\ stored' = storedNow
          /\ isHydrated' = TRUE
          /\ hydratePc' = "done"
          /\ UNCHANGED <<flowStep, chooseCategoryMode, categoryResultId, isFlipped,
                         hasRevealedAnswer, gameState, currentCategory, currentQuestionId,
                         usedQuestionsByCategory, discardPile, discardIndex, sessionId,
                         lastOutcome, completedSince>>
     ELSE IF hydrateThrows(loaded[1])
     THEN /\ hydratePc' = "threw"
          /\ stored' = storedNow
          /\ UNCHANGED <<isHydrated, flowStep, chooseCategoryMode, categoryResultId,
                         isFlipped, hasRevealedAnswer, gameState, currentCategory,
                         currentQuestionId, usedQuestionsByCategory, discardPile,
                         discardIndex, sessionId, lastOutcome, completedSince>>
     ELSE LET persisted == JSON_parse(loaded[1]) IN
          /\ sessionId' = persisted.sessionId
          /\ currentQuestionId' = validCurrentQuestionId(persisted)
          /\ isFlipped' = persisted.isFlipped
          /\ hasRevealedAnswer' = persisted.hasRevealedAnswer
          /\ usedQuestionsByCategory' = cleanedUsedQuestions(persisted)
          /\ discardPile' = cleanedDiscardPile(persisted)
          /\ discardIndex' = hydratedDiscardIndex(persisted)
          /\ lastOutcome' = persisted.lastOutcome
          /\ flowStep' = validFlowStep(persisted)
          /\ chooseCategoryMode' = persisted.chooseCategoryMode
          /\ categoryResultId' = persisted.categoryResultId
          /\ currentCategory' =
               IF persisted.selectedCategoryId # Null
               THEN (IF persisted.selectedCategoryId \in Categories
                     THEN persisted.selectedCategoryId ELSE Null)
               ELSE currentCategory
          /\ gameState' =
               IF hasProgress(persisted) \/ validFlowStep(persisted) # "home"
               THEN "playing" ELSE gameState
          /\ completedSince' = [c \in Categories |-> {}]
          /\ IF needsSaveBack(persisted)
             THEN /\ stored' = IF setOk THEN savePersistedGameState(savedBack(persisted))
                                        ELSE storedNow
                  /\ hydratePc' = "saving"
                  /\ UNCHANGED isHydrated
             ELSE /\ stored' = storedNow
                  /\ hydratePc' = "done"
                  /\ isHydrated' = TRUE
  /\ loadResult' = <<>>
  /\ last' = Note("hydrate", Null, Null)
  /\ navProbe' = NoProbe
  /\ UNCHANGED <<inFlight, diceVars, persistVars>>

\* hydrate when nothing else runs between loadPersistedGameState and its
\* continuation, given whether AsyncStorage.getItem, removeItem and setItem
\* succeed
HydrateRestoreIO(getOk, removeOk, setOk) ==
  /\ hydratePc = "loading"
  /\ hydrateContinuation(IF getOk THEN loadPersistedGameState ELSE <<>>,
                         storedAfterLoadIO(getOk, removeOk), setOk)

\* loadPersistedGameState resolves; hydrate's continuation is yet to run
LoadPersistedGameStateResolves ==
  /\ hydratePc = "loading"
  /\ hydratePc' = "loaded"
  /\ loadResult' = loadPersistedGameState
  /\ stored' = storedAfterLoadIO(TRUE, TRUE)
  /\ last' = Note("loadPersistedGameState", Null, Null)
  /\ navProbe' = NoProbe
  /\ UNCHANGED <<isHydrated, flowStep, chooseCategoryMode, categoryResultId, isFlipped,
                 hasRevealedAnswer, gameState, currentCategory, currentQuestionId,
                 usedQuestionsByCategory, discardPile, discardIndex, sessionId,
                 lastOutcome, inFlight, diceVars, completedSince, persistVars>>

\* hydrate's continuation, run with the value loadPersistedGameState resolved with
HydrateRestoreLoaded ==
  /\ hydratePc = "loaded"
  /\ hydrateContinuation(loadResult, stored, TRUE)

\* hydrate when every storage call succeeds
HydrateRestore == HydrateRestoreIO(TRUE, TRUE, TRUE)

\* hydrate after "await savePersistedGameState": setIsHydrated(true)
HydrateFinish ==
  /\ hydratePc = "saving"
  /\ hydratePc' = "done"
  /\ loadResult' = <<>>
  /\ isHydrated' = TRUE
  /\ last' = Note("hydrate", Null, Null)
  /\ navProbe' = NoProbe
  /\ UNCHANGED <<flowStep, chooseCategoryMode, categoryResultId, isFlipped,
                 hasRevealedAnswer, gameState, currentCategory, currentQuestionId,
                 usedQuestionsByCategory, discardPile, discardIndex, sessionId,
                 lastOutcome, stored, inFlight, diceVars, completedSince, persistVars>>

(* ----------------------- new game and end game ------------------------- *)

\* the snapshot startNewGame writes
newGameState ==
  [getInitialPersistedState EXCEPT !.sessionId = "generated", !.flowStep = "dice"]

\* startNewGame up to "await clearPersistedGameState()", given whether
\* AsyncStorage.removeItem succeeds
StartNewGameCallIO(removeOk) ==
  /\ inFlight = "none"
  /\ inFlight' = "startNewGame"
  /\ stored' = IF removeOk THEN <<>> ELSE stored
  /\ last' = Note("startNewGame", Null, Null)
  /\ navProbe' = NoProbe
  /\ UNCHANGED <<engineVars, diceVars, completedSince, persistVars>>

StartNewGameCall == StartNewGameCallIO(TRUE)

\* startNewGame after the await: reset all state, persist the initial state,
\* given whether AsyncStorage.setItem succeeds
StartNewGameResumeIO(setOk) ==
  /\ inFlight = "startNewGame"
  /\ inFlight' = "none"
  /\ sessionId' = "generated"
  /\ usedQuestionsByCategory' = EmptyUsed
  /\ discardPile' = <<>>
  /\ currentCategory' = Null
  /\ currentQuestionId' = NullId
  /\ discardIndex' = 0
  /\ isFlipped' = FALSE
  /\ hasRevealedAnswer' = FALSE
  /\ lastOutcome' = Null
  /\ flowStep' = "dice"
  /\ chooseCategoryMode' = Null
  /\ categoryResultId' = Null
  /\ gameState' = "playing"
  /\ stored' = IF setOk THEN savePersistedGameState(newGameState) ELSE stored
  /\ completedSince' = [c \in Categories |-> {}]
  /\ last' = Note("startNewGame", Null, Null)
  /\ navProbe' = NoProbe
  /\ UNCHANGED <<isHydrated, hydrateVars, diceVars, persistVars>>

StartNewGameResume == StartNewGameResumeIO(TRUE)

\* endGame up to "await clearPersistedGameState()", given whether
\* AsyncStorage.removeItem succeeds
EndGameCallIO(removeOk) ==
  /\ inFlight = "none"
  /\ inFlight' = "endGame"
  /\ stored' = IF removeOk THEN <<>> ELSE stored
  /\ last' = Note("endGame", Null, Null)
  /\ navProbe' = NoProbe
  /\ UNCHANGED <<engineVars, diceVars, completedSince, persistVars>>

EndGameCall == EndGameCallIO(TRUE)

\* endGame after the await
EndGameResume ==
  /\ inFlight = "endGame"
  /\ inFlight' = "none"
  /\ gameState' = "idle"
  /\ currentQuestionId' = NullId
  /\ currentCategory' = Null
  /\ isFlipped' = FALSE
  /\ hasRevealedAnswer' = FALSE
  /\ discardPile' = <<>>
  /\ usedQuestionsByCategory' = EmptyUsed
  /\ flowStep' = "home"
  /\ sessionId' = ""
  /\ completedSince' = [c \in Categories |-> {}]
  /\ last' = Note("endGame", Null, Null)
  /\ navProbe' = NoProbe
  /\ UNCHANGED <<isHydrated, hydrateVars, chooseCategoryMode, categoryResultId,
                 discardIndex, lastOutcome, stored, diceVars, persistVars>>

(* --------------------------- outcome and draw -------------------------- *)

DrawRandomOutcome ==
  /\ \E outcome \in drawRandomOutcomeResults :
       /\ lastOutcome' = IF outcome = Null THEN lastOutcome ELSE outcome
       /\ last' = Note("drawRandomOutcome", Null, outcome)
  /\ navProbe' = NoProbe
  /\ UNCHANGED <<isHydrated, hydrateVars, flowStep, chooseCategoryMode, categoryResultId,
                 isFlipped, hasRevealedAnswer, gameState, currentCategory,
                 currentQuestionId, usedQuestionsByCategory, discardPile, discardIndex,
                 sessionId, stored, inFlight, diceVars, completedSince, persistVars>>

\* selectCategoryById(categoryId): every id the screens pass names a category
selectCategoryById(categoryId) ==
  IF categoryId \in Categories THEN categoryId ELSE currentCategory

\* drawRandomQuestion that marks the question used as soon as it is drawn
DrawRandomQuestionMarkingUsed(categoryId) ==
  /\ currentCategory' = selectCategoryById(categoryId)
  /\ \E question \in drawRandomQuestionResults(categoryId) :
       /\ IF question = NullId
          THEN UNCHANGED <<currentQuestionId, isFlipped, hasRevealedAnswer,
                           usedQuestionsByCategory>>
          ELSE /\ currentQuestionId' = question
               /\ isFlipped' = FALSE
               /\ hasRevealedAnswer' = FALSE
               /\ usedQuestionsByCategory' =
                    markQuestionAsUsed(usedQuestionsByCategory, question)
       /\ last' = Note("drawRandomQuestion", categoryId, question)
  /\ navProbe' = NoProbe
  /\ UNCHANGED <<isHydrated, hydrateVars, flowStep, chooseCategoryMode, categoryResultId,
                 gameState, discardPile, discardIndex, sessionId, lastOutcome, stored,
                 inFlight, completedSince, persistVars>>

\* the one way the screens draw a question (handleShowQuestion,
\* handleSelectCategory, handleRollComplete):
\*   selectCategoryById(categoryId); drawRandomQuestion(categoryId)
DrawRandomQuestion(categoryId) ==
  /\ currentCategory' = selectCategoryById(categoryId)
  /\ \E question \in drawRandomQuestionResults(categoryId) :
       /\ IF question = NullId
          THEN UNCHANGED <<currentQuestionId, isFlipped, hasRevealedAnswer>>
          ELSE /\ currentQuestionId' = question
               /\ isFlipped' = FALSE
               /\ hasRevealedAnswer' = FALSE
       /\ last' = Note("drawRandomQuestion", categoryId, question)
  /\ navProbe' = NoProbe
  /\ UNCHANGED <<isHydrated, hydrateVars, flowStep, chooseCategoryMode, categoryResultId,
                 gameState, usedQuestionsByCategory, discardPile,
                 discardIndex, sessionId, lastOutcome, stored, inFlight, completedSince, persistVars>>

\* CategoryResultScreen.handleShowQuestion
HandleShowQuestion(categoryId) ==
  /\ DrawRandomQuestion(categoryId)
  /\ UNCHANGED diceVars

\* QuestionScreen.handleCardTap: the card is rendered only with a current
\* question and a current category
HandleCardTap ==
  /\ currentQuestion # NullId
  /\ currentCategory # Null
  /\ hasRevealedAnswer' = IF ~isFlipped THEN TRUE ELSE hasRevealedAnswer
  /\ isFlipped' = ~isFlipped
  /\ last' = Note("handleCardTap", Null, Null)
  /\ navProbe' = NoProbe
  /\ UNCHANGED <<isHydrated, hydrateVars, flowStep, chooseCategoryMode, categoryResultId,
                 gameState, currentCategory, currentQuestionId, usedQuestionsByCategory,
                 discardPile, discardIndex, sessionId, lastOutcome, stored, inFlight, diceVars,
                 completedSince, persistVars>>

(* ------------------------------ completion ----------------------------- *)

\* completeCurrentQuestion that resets the cursor outside its guard
CompleteCurrentQuestionUnguarded ==
  /\ IF currentQuestion # NullId
     THEN /\ usedQuestionsByCategory' =
               markQuestionAsUsed(usedQuestionsByCategory, currentQuestion)
          /\ discardPile' = addToDiscardPile(discardPile, currentQuestion)
          /\ currentQuestionId' = NullId
          /\ currentCategory' = Null
          /\ isFlipped' = FALSE
          /\ hasRevealedAnswer' = FALSE
          /\ completedSince' =
               [completedSince EXCEPT ![CategoryOf(currentQuestion)] =
                  @ \cup {currentQuestion}]
     ELSE UNCHANGED <<usedQuestionsByCategory, discardPile,
                      currentQuestionId, currentCategory, isFlipped, hasRevealedAnswer,
                      completedSince>>
  /\ discardIndex' = 0
  /\ last' = Note("completeCurrentQuestion", currentQuestion, Null)
  /\ navProbe' = NoProbe
  /\ UNCHANGED <<isHydrated, hydrateVars, flowStep, chooseCategoryMode, categoryResultId,
                 gameState, sessionId, lastOutcome, stored, inFlight, diceVars, persistVars>>

CompleteCurrentQuestion ==
  /\ IF currentQuestion # NullId
     THEN /\ usedQuestionsByCategory' =
               markQuestionAsUsed(usedQuestionsByCategory, currentQuestion)
          /\ discardPile' = addToDiscardPile(discardPile, currentQuestion)
          /\ discardIndex' = 0
          /\ currentQuestionId' = NullId
          /\ currentCategory' = Null
          /\ isFlipped' = FALSE
          /\ hasRevealedAnswer' = FALSE
          /\ completedSince' =
               [completedSince EXCEPT ![CategoryOf(currentQuestion)] =
                  @ \cup {currentQuestion}]
     ELSE UNCHANGED <<usedQuestionsByCategory, discardPile, discardIndex,
                      currentQuestionId, currentCategory, isFlipped, hasRevealedAnswer,
                      completedSince>>
  /\ last' = Note("completeCurrentQuestion", currentQuestion, Null)
  /\ navProbe' = NoProbe
  /\ UNCHANGED <<isHydrated, hydrateVars, flowStep, chooseCategoryMode, categoryResultId,
                 gameState, sessionId, lastOutcome, stored, inFlight, diceVars, persistVars>>

(* ------------------------------ reshuffle ------------------------------ *)

\* resetUsedQuestionsForCategory that empties the used list of every category
ResetUsedQuestionsForCategoryAll(categoryId) ==
  /\ usedQuestionsByCategory' = EmptyUsed
  /\ completedSince' = [c \in Categories |-> {}]
  /\ last' = Note("resetUsedQuestionsForCategory", categoryId, Null)
  /\ navProbe' = NoProbe
  /\ UNCHANGED <<isHydrated, hydrateVars, flowStep, chooseCategoryMode, categoryResultId,
                 isFlipped, hasRevealedAnswer, gameState, currentCategory,
                 currentQuestionId, discardPile, discardIndex, sessionId, lastOutcome,
                 stored, inFlight, diceVars, persistVars>>

ResetUsedQuestionsForCategory(categoryId) ==
  /\ usedQuestionsByCategory' = [usedQuestionsByCategory EXCEPT ![categoryId] = <<>>]
  /\ completedSince' = [completedSince EXCEPT ![categoryId] = {}]
  /\ last' = Note("resetUsedQuestionsForCategory", categoryId, Null)
  /\ navProbe' = NoProbe
  /\ UNCHANGED <<isHydrated, hydrateVars, flowStep, chooseCategoryMode, categoryResultId,
                 isFlipped, hasRevealedAnswer, gameState, currentCategory,
                 currentQuestionId, discardPile, discardIndex, sessionId, lastOutcome,
                 stored, inFlight, diceVars, persistVars>>

ResetAllUsedQuestions ==
  /\ usedQuestionsByCategory' = EmptyUsed
  /\ currentQuestionId' = NullId
  /\ currentCategory' = Null
  /\ isFlipped' = FALSE
  /\ hasRevealedAnswer' = FALSE
  /\ completedSince' = [c \in Categories |-> {}]
  /\ last' = Note("resetAllUsedQuestions", Null, Null)
  /\ navProbe' = NoProbe
  /\ UNCHANGED <<isHydrated, hydrateVars, flowStep, chooseCategoryMode, categoryResultId,
                 gameState, discardPile, discardIndex, sessionId, lastOutcome, stored,
                 inFlight, diceVars, persistVars>>

(* ------------------------- discard pile cursor ------------------------- *)

\* navigateDiscardPile(direction): +1 = older, -1 = newer
NavigateDiscardPile(direction) ==
  /\ discardIndex' = navigateIndex(discardPile, discardIndex, direction)
  /\ last' = Note("navigateDiscardPile", direction,
                  getDiscardCard(discardPile,
                                 navigateIndex(discardPile, discardIndex, direction)))
  /\ navProbe' =
       IF direction = 1
       THEN [phase |-> 1, from |-> discardIndex, before |-> getCurrentDiscardCard]
       ELSE IF navProbe.phase = 1
            THEN [navProbe EXCEPT !.phase = 2]
            ELSE NoProbe
  /\ UNCHANGED <<isHydrated, hydrateVars, flowStep, chooseCategoryMode, categoryResultId,
                 isFlipped, hasRevealedAnswer, gameState, currentCategory,
                 currentQuestionId, usedQuestionsByCategory, discardPile, sessionId,
                 lastOutcome, stored, inFlight, diceVars, completedSince, persistVars>>

\* the indexes setDiscardIndex is called with: every slot of the pile, one
\* below and one above
IndexArguments == (0 - 1)..Len(discardPile)

SetDiscardIndex(index) ==
  /\ discardIndex' = index
  /\ last' = Note("setDiscardIndex", index, Null)
  /\ navProbe' = NoProbe
  /\ UNCHANGED <<isHydrated, hydrateVars, flowStep, chooseCategoryMode, categoryResultId,
                 isFlipped, hasRevealedAnswer, gameState, currentCategory,
                 currentQuestionId, usedQuestionsByCategory, discardPile, sessionId,
                 lastOutcome, stored, inFlight, diceVars, completedSince, persistVars>>

(* -------------------------------- dice --------------------------------- *)

\* CategoryScreen.getAvailableOutcomes, the list handed to the DiceRoller
CategoryScreen_getAvailableOutcomes ==
  {c \in Categories : ~isCategoryEmpty(c)} \cup ChooseOutcomes

\* DiceRoller.pickRandomOutcome: every outcome it can return
pickRandomOutcome ==
  IF CategoryScreen_getAvailableOutcomes = {} THEN {Null}
  ELSE CategoryScreen_getAvailableOutcomes

\* DiceRoller.triggerRoll: with no category left it opens the "all cards
\* empty" popup and starts no roll
triggerRoll ==
  /\ finalOutcomeRef = Null
  /\ IF CategoryScreen_getAvailableOutcomes \ ChooseOutcomes = {}
     THEN /\ UNCHANGED diceVars
          /\ last' = Note("triggerRoll", Null, Null)
     ELSE \E outcome \in pickRandomOutcome :
            /\ finalOutcomeRef' = outcome
            /\ rollUsed' = usedQuestionsByCategory
            /\ last' = Note("triggerRoll", Null, outcome)
  /\ navProbe' = NoProbe
  /\ UNCHANGED <<engineVars, stored, inFlight, completedSince, persistVars>>

\* handleRollComplete's selectCategoryById(outcome); drawRandomQuestion(outcome),
\* through the callbacks of the render in which the roll started: the
\* available questions are computed from that render's used lists
DrawRandomQuestionOfRoll(categoryId) ==
  /\ currentCategory' = selectCategoryById(categoryId)
  /\ LET available == {q \in allQuestions :
                         CategoryOf(q) = categoryId /\ ~Includes(rollUsed[categoryId], q)}
     IN \E question \in (IF available = {} THEN {NullId} ELSE available) :
          /\ IF question = NullId
             THEN UNCHANGED <<currentQuestionId, isFlipped, hasRevealedAnswer>>
             ELSE /\ currentQuestionId' = question
                  /\ isFlipped' = FALSE
                  /\ hasRevealedAnswer' = FALSE
          /\ last' = Note("drawRandomQuestion", categoryId, question)
  /\ navProbe' = NoProbe
  /\ UNCHANGED <<isHydrated, hydrateVars, flowStep, chooseCategoryMode, categoryResultId,
                 gameState, usedQuestionsByCategory, discardPile,
                 discardIndex, sessionId, lastOutcome, stored, inFlight, completedSince, persistVars>>

\* DiceRoller.handleRollEnd, when its timers fire: clear the ref, then
\* CategoryScreen.handleRollComplete(outcome)
handleRollEnd ==
  /\ finalOutcomeRef # Null
  /\ finalOutcomeRef' = Null
  /\ rollUsed' = EmptyUsed
  /\ IF finalOutcomeRef \in ChooseOutcomes
     THEN /\ last' = Note("handleRollComplete", finalOutcomeRef, Null)
          /\ navProbe' = NoProbe
          /\ UNCHANGED <<engineVars, stored, inFlight, completedSince, persistVars>>
     ELSE DrawRandomQuestionOfRoll(finalOutcomeRef)

(* ------------------- discard pile screen (visualIndex) ----------------- *)

Max(a, b) == IF a >= b THEN a ELSE b

\* DiscardPileScreen.clampedVisualIndex
clampedVisualIndex(pile, visualIndex) ==
  IF Len(pile) > 0 THEN Min(Max(0, visualIndex), Len(pile) - 1) ELSE 0

\* DiscardPileScreen.currentCard = newestFirst[clampedVisualIndex]
currentCard(pile, visualIndex) ==
  getDiscardCard(pile, clampedVisualIndex(pile, visualIndex))

\* the visualIndex handleGoOlder leaves
handleGoOlder(pile, visualIndex) ==
  IF clampedVisualIndex(pile, visualIndex) < Len(pile) - 1
  THEN clampedVisualIndex(pile, visualIndex) + 1
  ELSE visualIndex

\* the visualIndex handleGoNewer leaves
handleGoNewer(pile, visualIndex) ==
  IF clampedVisualIndex(pile, visualIndex) > 0
  THEN clampedVisualIndex(pile, visualIndex) - 1
  ELSE visualIndex

\* the values visualIndex takes: 0 at mount, then only in-range slots
VisualIndexes(pile) == 0..Max(0, Len(pile) - 1)

(* ---------------- discard pile screen (discardIndex as data index) ------ *)

\* DiscardPileScreen.clampedIndex
clampedIndex(pile, index) ==
  IF Len(pile) > 0 THEN Min(Max(0, index), Len(pile) - 1) ELSE 0

\* DiscardPileScreen.currentCard = getDiscardCard(pileLength - 1 - clampedIndex)
DiscardPileScreen_currentCard(pile, index) ==
  IF Len(pile) = 0 THEN NullId
  ELSE getDiscardCard(pile, Len(pile) - 1 - clampedIndex(pile, index))

toDataIndex(pile, visualIndex) == Len(pile) - 1 - visualIndex

\* the discardIndex handleMiniCardPress(visualIndex) leaves
handleMiniCardPress(pile, index, visualIndex) ==
  IF /\ toDataIndex(pile, visualIndex) # clampedIndex(pile, index)
     /\ toDataIndex(pile, visualIndex) >= 0
     /\ toDataIndex(pile, visualIndex) < Len(pile)
  THEN toDataIndex(pile, visualIndex)
  ELSE index

(* ---------------------------- specification ---------------------------- *)

\* the screens call into the engine once it is hydrated; here a session is
\* sequential: no handler runs while startNewGame or endGame is suspended
Ready == isHydrated /\ inFlight = "none"

\* the game screens are entered through startNewGame and left through endGame
InGame == Ready /\ gameState = "playing"

\* a game on first launch: draw, flip, complete, reshuffle, browse the pile
Next ==
  \/ HydrateRestore
  \/ Ready /\ StartNewGameCall
  \/ StartNewGameResume
  \/ InGame /\ EndGameCall
  \/ EndGameResume
  \/ InGame /\ \E c \in Categories : HandleShowQuestion(c)
  \/ InGame /\ HandleCardTap
  \/ InGame /\ CompleteCurrentQuestion
  \/ InGame /\ \E c \in Categories : ResetUsedQuestionsForCategory(c)
  \/ InGame /\ ResetAllUsedQuestions
  \/ InGame /\ \E d \in {0 - 1, 1} : NavigateDiscardPile(d)
  \/ InGame /\ \E i \in IndexArguments : SetDiscardIndex(i)

Spec == Init /\ [][Next]_vars

\* the dice screen is on top while a roll is in progress
Idle == InGame /\ finalOutcomeRef = Null

\* a game played through the dice: outcome draw, roll, draw, complete, reshuffle
NextDice ==
  \/ HydrateRestore
  \/ Ready /\ StartNewGameCall
  \/ StartNewGameResume
  \/ Idle /\ EndGameCall
  \/ EndGameResume
  \/ Idle /\ DrawRandomOutcome
  \/ InGame /\ triggerRoll
  \/ InGame /\ handleRollEnd
  \/ Idle /\ \E c \in Categories : HandleShowQuestion(c)
  \/ Idle /\ CompleteCurrentQuestion
  \/ Idle /\ \E c \in Categories : ResetUsedQuestionsForCategory(c)
  \/ Idle /\ ResetAllUsedQuestions

SpecDice == Init /\ [][NextDice]_vars

\* bounds of the snapshots found in storage at launch
MaxStoredPile == 2

StoredIds == allQuestions \cup {StaleId}

StoredPiles ==
  {<<>>} \cup {<<a>> : a \in StoredIds} \cup {<<a, b>> : a, b \in StoredIds}

\* snapshots validatePersistedState accepts
StoredSnapshots ==
  {[getInitialPersistedState EXCEPT
      !.discardPileIds = pile,
      !.discardActiveIndex = index,
      !.currentQuestionId = question,
      !.selectedCategoryId = IF question = NullId THEN Null ELSE "prylar",
      !.flowStep = IF question = NullId THEN "discard-pile" ELSE "question"] :
     pile \in {p \in StoredPiles : Len(p) <= MaxStoredPile},
     index \in (0 - 1)..MaxStoredPile,
     question \in {NullId, 1, StaleId}}

\* launch with a snapshot in storage
InitHydrate ==
  InitEngine /\ stored \in {savePersistedGameState(s) : s \in StoredSnapshots}

\* a launch that resumes a stored game and goes on with it
NextHydrate ==
  \/ HydrateRestore
  \/ HydrateFinish
  \/ InGame /\ \E c \in Categories : HandleShowQuestion(c)
  \/ InGame /\ CompleteCurrentQuestion
  \/ InGame /\ \E d \in {0 - 1, 1} : NavigateDiscardPile(d)
  \/ InGame /\ \E i \in IndexArguments : SetDiscardIndex(i)

SpecHydrate == InitHydrate /\ [][NextHydrate]_vars

(* ------------------------- the persist effect --------------------------- *)

\* debouncedSave(state) that leaves a pending timer as it is
debouncedSaveKeepingPending(state) ==
  /\ timers' = IF timers = {} THEN {state} ELSE timers
  /\ timeoutRef' = IF timers = {} THEN <<state>> ELSE timeoutRef

\* debouncedSave(state): cancel the timer timeoutRef names, schedule a new
\* one that will call savePersistedGameState with the state captured now
debouncedSave(state) ==
  /\ timers' = (timers \ Range(timeoutRef)) \cup {state}
  /\ timeoutRef' = <<state>>

\* the effect that persists state changes has run for the current render
EffectsFlushed == persistDeps = currentDeps

\* the persist effect, run after a render that changed one of its dependencies
PersistEffect ==
  /\ persistDeps # currentDeps
  /\ persistDeps' = currentDeps
  /\ IF isHydrated /\ sessionId # ""
     THEN debouncedSave(buildPersistedState)
     ELSE UNCHANGED <<timers, timeoutRef>>
  /\ UNCHANGED <<engineVars, stored, inFlight, diceVars, last, completedSince,
                 navProbe>>

\* a pending save timer fires, 300 ms after it was scheduled, given whether
\* AsyncStorage.setItem succeeds
SaveTimerFiresIO(setOk) ==
  \E t \in timers :
    /\ stored' = IF setOk THEN savePersistedGameState(t) ELSE stored
    /\ timers' = timers \ {t}
    /\ last' = Note("saveTimer", t, IF setOk THEN "ok" ELSE "failed")
    /\ navProbe' = NoProbe
    /\ UNCHANGED <<engineVars, inFlight, diceVars, timeoutRef, persistDeps,
                   completedSince>>

SaveTimerFires == SaveTimerFiresIO(TRUE)

\* snapshots of a running session found in storage at launch
SessionInStorage ==
  {[getInitialPersistedState EXCEPT
      !.sessionId = "generated",
      !.discardPileIds = pile,
      !.discardActiveIndex = Len(pile) - 1,
      !.usedQuestionsByCategory = [EmptyUsed EXCEPT !["prylar"] = used],
      !.currentQuestionId = question,
      !.selectedCategoryId = IF question = NullId THEN Null ELSE "prylar",
      !.flowStep = IF question = NullId THEN "dice" ELSE "question"] :
     pile \in {<<>>, <<1, StaleId>>},
     used \in {<<>>, <<StaleId, 1>>},
     question \in {NullId, 1, StaleId}}

\* launch with nothing or with a session in storage
InitPersist ==
  /\ InitEngine
  /\ stored \in {<<>>} \cup {savePersistedGameState(s) : s \in SessionInStorage}

\* a launched game whose changes are persisted behind the debounce
NextPersist ==
  \/ PersistEffect
  \/ EffectsFlushed /\ SaveTimerFires
  \/ EffectsFlushed /\ HydrateRestore
  \/ EffectsFlushed /\ HydrateFinish
  \/ EffectsFlushed /\ Ready /\ StartNewGameCall
  \/ EffectsFlushed /\ StartNewGameResume
  \/ EffectsFlushed /\ InGame /\ EndGameCall
  \/ EffectsFlushed /\ EndGameResume
  \/ EffectsFlushed /\ InGame /\ \E c \in Categories : HandleShowQuestion(c)
  \/ EffectsFlushed /\ InGame /\ CompleteCurrentQuestion

SpecPersist == InitPersist /\ [][NextPersist]_vars

\* effects run after each render, a scheduled timer fires, and an awaited
\* storage call returns
SpecPersistFair ==
  /\ SpecPersist
  /\ WF_vars(PersistEffect)
  /\ WF_vars(EffectsFlushed /\ SaveTimerFires)
  /\ WF_vars(EffectsFlushed /\ HydrateFinish)
  /\ WF_vars(EffectsFlushed /\ StartNewGameResume)
  /\ WF_vars(EffectsFlushed /\ EndGameResume)

(* ---------------------- storage calls that may fail --------------------- *)

\* a session with one completed question, as a game in progress stores it
SessionInProgress ==
  [getInitialPersistedState EXCEPT
     !.discardPileIds = <<1>>,
     !.usedQuestionsByCategory = [EmptyUsed EXCEPT !["prylar"] = <<1>>],
     !.flowStep = "dice"]

\* launch with nothing or with a game in progress in storage, its current
\* question in the catalog or not
InitFlaky ==
  /\ InitEngine
  /\ stored \in {<<>>,
                 savePersistedGameState(SessionInProgress),
                 savePersistedGameState([SessionInProgress EXCEPT
                                           !.currentQuestionId = StaleId,
                                           !.flowStep = "question"])}

\* the game over an AsyncStorage whose getItem, setItem and removeItem may reject
NextFlaky ==
  \/ PersistEffect
  \/ EffectsFlushed /\ \E setOk \in BOOLEAN : SaveTimerFiresIO(setOk)
  \/ \E getOk, removeOk, setOk \in BOOLEAN : HydrateRestoreIO(getOk, removeOk, setOk)
  \/ EffectsFlushed /\ HydrateFinish
  \/ EffectsFlushed /\ Ready /\ \E removeOk \in BOOLEAN : StartNewGameCallIO(removeOk)
  \/ EffectsFlushed /\ \E setOk \in BOOLEAN : StartNewGameResumeIO(setOk)
  \/ EffectsFlushed /\ InGame /\ \E removeOk \in BOOLEAN : EndGameCallIO(removeOk)
  \/ EffectsFlushed /\ EndGameResume
  \/ EffectsFlushed /\ InGame /\ \E c \in Categories : HandleShowQuestion(c)
  \/ EffectsFlushed /\ InGame /\ CompleteCurrentQuestion

SpecFlaky == InitFlaky /\ [][NextFlaky]_vars

(* ------------------------ the storage module alone --------------------- *)

\* savePersistedGameState(state)
SavePersistedGameState(state) ==
  /\ stored' = savePersistedGameState(state)
  /\ last' = Note("savePersistedGameState", state, Null)
  /\ UNCHANGED <<engineVars, inFlight, diceVars, completedSince, navProbe, persistVars>>

\* loadPersistedGameState(): the note keeps the entry it found, the state
\* saved just before (if the last call was a save) and what it returned
LoadPersistedGameState ==
  /\ stored' = storedAfterLoad
  /\ last' = Note("loadPersistedGameState",
                  [entry |-> stored,
                   saved |-> IF last.op = "savePersistedGameState"
                             THEN <<last.arg>> ELSE <<>>],
                  loadPersistedGameState)
  /\ UNCHANGED <<engineVars, inFlight, diceVars, completedSince, navProbe, persistVars>>

\* clearPersistedGameState()
ClearPersistedGameState ==
  /\ stored' = <<>>
  /\ last' = Note("clearPersistedGameState", Null, Null)
  /\ UNCHANGED <<engineVars, inFlight, diceVars, completedSince, navProbe, persistVars>>

\* the states handed to savePersistedGameState
SessionSnapshots ==
  {[getInitialPersistedState EXCEPT
      !.sessionId = id,
      !.discardPileIds = pile,
      !.discardActiveIndex = index,
      !.currentQuestionId = question,
      !.selectedCategoryId = IF question = NullId THEN Null ELSE "prylar",
      !.flowStep = IF question = NullId THEN "dice" ELSE "question",
      !.isFlipped = flipped,
      !.hasRevealedAnswer = flipped,
      !.lastOutcome = IF flipped THEN "choose-user" ELSE Null,
      !.usedQuestionsByCategory = [EmptyUsed EXCEPT !["prylar"] = pile]] :
     id \in {"", "generated"},
     pile \in {<<>>, <<1>>, <<2, 1>>, <<1, StaleId>>},
     index \in (0 - 1)..MaxStoredPile,
     question \in {NullId, 1, StaleId},
     flipped \in BOOLEAN}

\* a document of a game in progress
SampleDocument ==
  JSON_stringify([getInitialPersistedState EXCEPT
                    !.discardPileIds = <<1>>,
                    !.usedQuestionsByCategory = [EmptyUsed EXCEPT !["prylar"] = <<1>>],
                    !.flowStep = "dice"])

\* entries found in storage that no savePersistedGameState of this schema
\* wrote: another schema version, a field missing or of another type
ForeignDocuments ==
  {[SampleDocument EXCEPT !.schemaVersion = JNumber(SchemaVersion + 1)],
   [SampleDocument EXCEPT !.schemaVersion = JString("1")],
   [SampleDocument EXCEPT !.sessionId = JUndefined],
   [SampleDocument EXCEPT !.sessionId = JNumber(7)],
   [SampleDocument EXCEPT !.discardPileIds = JString("1")],
   [SampleDocument EXCEPT !.discardPileIds = JUndefined],
   [SampleDocument EXCEPT !.usedQuestionsByCategory.t = "null"],
   [SampleDocument EXCEPT !.usedQuestionsByCategory.t = "undefined"],
   [SampleDocument EXCEPT !.usedQuestionsByCategory.o["prylar"] = JString("1")],
   [SampleDocument EXCEPT !.usedQuestionsByCategory.o["personer"] = JNull],
   [SampleDocument EXCEPT !.discardActiveIndex = JUndefined],
   [SampleDocument EXCEPT !.currentQuestionId = JString("1")],
   [SampleDocument EXCEPT !.flowStep = JUndefined],
   [SampleDocument EXCEPT !.isFlipped = JString("no")]}

InitStorage ==
  InitEngine /\ stored \in {<<>>} \cup {<<d>> : d \in ForeignDocuments}

NextStorage ==
  \/ \E state \in SessionSnapshots : SavePersistedGameState(state)
  \/ LoadPersistedGameState
  \/ ClearPersistedGameState

SpecStorage == InitStorage /\ [][NextStorage]_vars

(* ------------------------- play, quit, relaunch ------------------------ *)

\* the process ends and the app is launched again: the provider mounts with
\* its initial state, pending timers are gone, the storage entry stays
Relaunch ==
  /\ isHydrated' = FALSE
  /\ hydratePc' = "loading"
  /\ loadResult' = <<>>
  /\ flowStep' = "home"
  /\ chooseCategoryMode' = Null
  /\ categoryResultId' = Null
  /\ isFlipped' = FALSE
  /\ hasRevealedAnswer' = FALSE
  /\ gameState' = "idle"
  /\ currentCategory' = Null
  /\ currentQuestionId' = NullId
  /\ usedQuestionsByCategory' = EmptyUsed
  /\ discardPile' = <<>>
  /\ discardIndex' = 0
  /\ sessionId' = ""
  /\ lastOutcome' = Null
  /\ inFlight' = "none"
  /\ finalOutcomeRef' = Null
  /\ rollUsed' = EmptyUsed
  /\ timers' = {}
  /\ timeoutRef' = <<>>
  /\ persistDeps' = [isHydrated |-> FALSE,
                     state |-> [getInitialPersistedState EXCEPT !.sessionId = ""]]
  /\ last' = Note("relaunch", Null, Null)
  /\ completedSince' = [c \in Categories |-> {}]
  /\ navProbe' = NoProbe
  /\ UNCHANGED stored

\* the topics the catalog has questions for
StockedCategories == {c \in Categories : getTotalQuestionsInCategory(c) > 0}

\* a game that is started, played with draws, completions and reshuffles,
\* persisted behind the debounce, and relaunched from what it wrote
NextRelaunch ==
  \/ PersistEffect
  \/ EffectsFlushed /\ SaveTimerFires
  \/ EffectsFlushed /\ HydrateRestore
  \/ EffectsFlushed /\ Ready /\ StartNewGameCall
  \/ EffectsFlushed /\ StartNewGameResume
  \/ EffectsFlushed /\ InGame /\ \E c \in StockedCategories : HandleShowQuestion(c)
  \/ EffectsFlushed /\ InGame /\ CompleteCurrentQuestion
  \/ EffectsFlushed /\ InGame /\ \E c \in StockedCategories : ResetUsedQuestionsForCategory(c)
  \/ EffectsFlushed /\ InGame /\ ResetAllUsedQuestions
  \/ EffectsFlushed /\ stored # <<>> /\ Relaunch

SpecRelaunch == Init /\ [][NextRelaunch]_vars

(* ------------------- resuming any accepted snapshot -------------------- *)

\* consumed lists validatePersistedState accepts for a topic: empty, one
\* question, the same question twice, a question of another topic, a stale id
StoredUsedLists ==
  {<<>>, <<1>>, <<1, 1>>, <<NumQuestions>>, <<StaleId, 1>>}

\* snapshots validatePersistedState accepts, whoever wrote them
AcceptedSnapshots ==
  {[getInitialPersistedState EXCEPT
      !.usedQuestionsByCategory = [EmptyUsed EXCEPT !["prylar"] = used],
      !.discardPileIds = pile,
      !.currentQuestionId = question,
      !.selectedCategoryId = IF question = NullId THEN Null ELSE "prylar",
      !.flowStep = IF question = NullId THEN "dice" ELSE "question"] :
     used \in StoredUsedLists,
     pile \in {<<>>, <<1>>},
     question \in {NullId, 1, 2}}

InitResume ==
  InitEngine /\ stored \in {savePersistedGameState(s) : s \in AcceptedSnapshots}

\* a launch that resumes an accepted snapshot and plays on
NextResume ==
  \/ HydrateRestore
  \/ InGame /\ \E c \in Categories : HandleShowQuestion(c)
  \/ InGame /\ CompleteCurrentQuestion
  \/ InGame /\ \E c \in Categories : ResetUsedQuestionsForCategory(c)
  \/ InGame /\ ResetAllUsedQuestions

SpecResume == InitResume /\ [][NextResume]_vars

(* ------------------------------ the launch ----------------------------- *)

\* entries found in storage at launch that this schema's save did not write:
\* text that is not JSON, another schema version, fields of the wrong shape
LaunchDocuments ==
  {Unparsable,
   [SampleDocument EXCEPT !.schemaVersion = JNumber(SchemaVersion + 1)],
   [SampleDocument EXCEPT !.sessionId = JUndefined],
   [SampleDocument EXCEPT !.discardPileIds = JString("1")],
   [SampleDocument EXCEPT !.usedQuestionsByCategory.t = "null"],
   [SampleDocument EXCEPT !.usedQuestionsByCategory.o["prylar"] = JString("1")],
   [SampleDocument EXCEPT !.usedQuestionsByCategory.o["personer"] = JNull]}

InitLaunch ==
  /\ InitEngine
  /\ stored \in {<<>>} \cup {<<d>> : d \in LaunchDocuments}
                \cup {savePersistedGameState(s) : s \in StoredSnapshots}

\* the hydrate effect, run once at mount, over a storage that may fail
NextLaunch ==
  \/ \E getOk, removeOk, setOk \in BOOLEAN : HydrateRestoreIO(getOk, removeOk, setOk)
  \/ HydrateFinish

\* the promise of hydrate is resumed whenever it can be
SpecLaunch == InitLaunch /\ [][NextLaunch]_vars /\ WF_vars(NextLaunch)

(* ------------------- ending the game during a roll -------------------- *)

\* the game screen's menu stays usable while the dice rolls, and the timers of
\* a roll are never cancelled: they fire whether or not the game screen is
\* still mounted.  A new game is started here once the old roll's timers
\* have fired.
NextRollEnd ==
  \/ HydrateRestore
  \/ Ready /\ finalOutcomeRef = Null /\ StartNewGameCall
  \/ StartNewGameResume
  \/ InGame /\ EndGameCall
  \/ EndGameResume
  \/ InGame /\ triggerRoll
  \/ handleRollEnd
  \/ Idle /\ HandleCardTap
  \/ Idle /\ CompleteCurrentQuestion

SpecRollEnd == Init /\ [][NextRollEnd]_vars

(* ------------------ a new game started during the load ----------------- *)

\* sessions of an earlier run found in storage at launch
PreviousSessions == {[s EXCEPT !.sessionId = "previous"] : s \in SessionInStorage}

InitStartWhileLoading ==
  /\ InitEngine
  /\ stored \in {<<>>} \cup {savePersistedGameState(s) : s \in PreviousSessions}

\* the main menu's start button calls startNewGame whether or not hydrate has
\* finished; the two async functions interleave at their awaits
NextStartWhileLoading ==
  \/ LoadPersistedGameStateResolves
  \/ HydrateRestoreLoaded
  \/ HydrateFinish
  \/ ~isHydrated /\ StartNewGameCall
  \/ StartNewGameResume
  \/ InGame /\ \E c \in Categories : HandleShowQuestion(c)
  \/ InGame /\ CompleteCurrentQuestion

SpecStartWhileLoading == InitStartWhileLoading /\ [][NextStartWhileLoading]_vars

(* ------------------------------ properties ----------------------------- *)

\* every question of the category is in its used list
Exhausted(c) ==
  {q \in allQuestions : CategoryOf(q) = c} \subseteq Range(usedQuestionsByCategory[c])

NonExhausted == {c \in Categories : ~Exhausted(c)}

\* C1: a question id returned by drawRandomQuestion(topic) is a question of
\* that topic that has not been completed since the topic's used list was
\* last cleared (by a reshuffle of the topic, of all topics, or a new game).
C1_NoRedrawAfterComplete ==
  (last.op = "drawRandomQuestion" /\ last.ret # NullId) =>
     /\ CategoryOf(last.ret) = last.arg
     /\ last.ret \notin completedSince[last.arg]

\* a draw returned a question in a topic in which a question is completed
C1_Witness ==
  /\ last.op = "drawRandomQuestion"
  /\ last.ret # NullId
  /\ completedSince[last.arg] # {}

\* C2: after completeCurrentQuestion with a current question, the last
\* element of the discard pile is the completed id and discardIndex is 0.
C2_CompletedIsNewest ==
  (last.op = "completeCurrentQuestion" /\ last.arg # NullId) =>
     /\ discardPile # <<>>
     /\ discardPile[Len(discardPile)] = last.arg
     /\ discardIndex = 0

C5_DrawFrame ==
  [][last'.op = "drawRandomQuestion" =>
       /\ UNCHANGED <<usedQuestionsByCategory, discardPile, discardIndex>>
       /\ \A c \in Categories : getRemainingCards(c)' = getRemainingCards(c)
       /\ UNCHANGED <<isHydrated, hydratePc, flowStep, chooseCategoryMode,
                      categoryResultId, gameState, sessionId, lastOutcome, stored>>
       /\ IF last'.ret = NullId
          THEN UNCHANGED <<currentQuestionId, isFlipped, hasRevealedAnswer>>
          ELSE /\ currentQuestionId' = last'.ret
               /\ CategoryOf(last'.ret) = last'.arg
               /\ ~Includes(usedQuestionsByCategory[last'.arg], last'.ret)
               /\ ~isFlipped'
               /\ ~hasRevealedAnswer']_vars

\* a question was drawn with a used list and a cursor that had something to lose
C5_Witness ==
  /\ last.op = "drawRandomQuestion"
  /\ last.ret # NullId
  /\ currentQuestionId = last.ret
  /\ discardIndex >= 1
  /\ usedQuestionsByCategory[last.arg] # <<>>

\* C6: in the state completeCurrentQuestion leaves when called with a current
\* question, the question's id is in the used list of its topic and
\* currentQuestionId, currentCategory, isFlipped and hasRevealedAnswer are
\* all cleared: the step is atomic, no state shows part of it.
C6_CompleteEffects ==
  (last.op = "completeCurrentQuestion" /\ last.arg # NullId) =>
     /\ Includes(usedQuestionsByCategory[CategoryOf(last.arg)], last.arg)
     /\ currentQuestionId = NullId
     /\ currentCategory = Null
     /\ ~isFlipped
     /\ ~hasRevealedAnswer

\* a second question of one topic was completed
C6_Witness ==
  /\ last.op = "completeCurrentQuestion"
  /\ last.arg # NullId
  /\ Len(usedQuestionsByCategory[CategoryOf(last.arg)]) >= 2

\* C7: a completeCurrentQuestion step taken with no current question changes
\* nothing: used lists, discard pile, cursor, session fields and storage.
C7_CompleteWithoutQuestionIsNoOp ==
  [][(last'.op = "completeCurrentQuestion" /\ last'.arg = NullId) =>
       UNCHANGED <<engineVars, stored, inFlight, completedSince>>]_vars

\* completeCurrentQuestion was called with no current question, a card in
\* the pile and the cursor away from the newest card
C7_Witness ==
  /\ last.op = "completeCurrentQuestion"
  /\ last.arg = NullId
  /\ discardPile # <<>>
  /\ discardIndex >= 1

\* C8: on every step other than endGame and startNewGame the discard pile
\* before the step is a prefix of the discard pile after it.
C8_PileAppendOnly ==
  [][last'.op \notin {"endGame", "startNewGame"} =>
       IsPrefix(discardPile, discardPile')]_vars

\* a question already in the pile was completed again after a reshuffle
C8_Witness ==
  /\ last.op = "completeCurrentQuestion"
  /\ last.arg # NullId
  /\ Len(discardPile) >= 2
  /\ discardPile[Len(discardPile)] # last.arg

\* C9: once hydrated, a non-empty discard pile has 0 <= discardIndex < length.
C9_CursorInRange ==
  (isHydrated /\ discardPile # <<>>) =>
     (0 <= discardIndex /\ discardIndex < Len(discardPile))

\* what goOlder then goNewer leave on the discard pile screen
olderThenNewer(pile, visualIndex) ==
  currentCard(pile, handleGoNewer(pile, handleGoOlder(pile, visualIndex)))

\* C10: navigateDiscardPile(+1) followed at once by navigateDiscardPile(-1),
\* and handleGoOlder followed by handleGoNewer, leave the current card what
\* it was, for every pile and every cursor.
C10_OlderThenNewerRestores ==
  /\ navProbe.phase = 2 => getCurrentDiscardCard = navProbe.before
  /\ \A v \in VisualIndexes(discardPile) :
       olderThenNewer(discardPile, v) = currentCard(discardPile, v)

\* the cursors from which goOlder has an older card to go to, and the cursor
\* 0 of a pile of at most one card
HasOlder(pile, index) ==
  \/ 0 <= index /\ index < Len(pile) - 1
  \/ index = 0 /\ Len(pile) <= 1

\* C10, amended: the same, for the cursors that are in range and not on the
\* oldest card of a pile of two or more cards.
C10_OlderThenNewerRestoresUnlessOldest ==
  /\ (navProbe.phase = 2 /\ HasOlder(discardPile, navProbe.from)) =>
        getCurrentDiscardCard = navProbe.before
  /\ \A v \in VisualIndexes(discardPile) :
       HasOlder(discardPile, v) =>
         olderThenNewer(discardPile, v) = currentCard(discardPile, v)

\* goOlder then goNewer ran from a card that has an older and a newer card
C10_Witness ==
  /\ navProbe.phase = 2
  /\ navProbe.from >= 1
  /\ navProbe.from < Len(discardPile) - 1
  /\ navProbe.before # NullId

\* C11: a setDiscardIndex(i) step sets discardIndex to i when
\* 0 <= i < length of the pile, and leaves it unchanged otherwise.
C11_JumpToGuarded ==
  [][last'.op = "setDiscardIndex" =>
       discardIndex' =
         IF 0 <= last'.arg /\ last'.arg < Len(discardPile)
         THEN last'.arg ELSE discardIndex]_vars

\* C12: the card the discard pile screen presents as current is the engine's
\* getCurrentDiscardCard(), for every pile and every cursor within the pile;
\* so after a completion it is the newest card of the pile.
C12_ScreenShowsEngineCard ==
  (isHydrated /\ 0 <= discardIndex /\ discardIndex < Len(discardPile)) =>
     /\ DiscardPileScreen_currentCard(discardPile, discardIndex) = getCurrentDiscardCard
     /\ last.op = "completeCurrentQuestion" =>
           DiscardPileScreen_currentCard(discardPile, discardIndex) =
             discardPile[Len(discardPile)]

\* C13: a reshuffle step leaves the discard pile and the cursor unchanged;
\* resetUsedQuestionsForCategory(topic) empties the used list of that topic
\* only, resetAllUsedQuestions the used list of every topic.
C13_ReshuffleFrame ==
  [][/\ last'.op = "resetUsedQuestionsForCategory" =>
          /\ usedQuestionsByCategory' =
               [usedQuestionsByCategory EXCEPT ![last'.arg] = <<>>]
          /\ UNCHANGED <<discardPile, discardIndex>>
     /\ last'.op = "resetAllUsedQuestions" =>
          /\ usedQuestionsByCategory' = EmptyUsed
          /\ UNCHANGED <<discardPile, discardIndex>>]_vars

\* one topic was reshuffled while another topic had used questions and the
\* cursor was away from the newest card
C13_Witness ==
  /\ last.op = "resetUsedQuestionsForCategory"
  /\ usedQuestionsByCategory[last.arg] = <<>>
  /\ \E c \in Categories : usedQuestionsByCategory[c] # <<>>
  /\ Len(discardPile) >= 2
  /\ discardIndex >= 1

\* C14: once endGame has completed, flowStep is home, every used list and
\* the discard pile are empty, the cursor is 0, and the current question, the
\* selected topic, the flip flags, the choice mode and the result topic have
\* their initial values.
C14_EndGameClearsSession ==
  (last.op = "endGame" /\ inFlight = "none") =>
     /\ flowStep = "home"
     /\ usedQuestionsByCategory = EmptyUsed
     /\ discardPile = <<>>
     /\ discardIndex = 0
     /\ currentQuestionId = NullId
     /\ currentCategory = Null
     /\ ~isFlipped
     /\ ~hasRevealedAnswer
     /\ chooseCategoryMode = Null
     /\ categoryResultId = Null

\* every question id the snapshot refers to is in the catalog
IdsInCatalog(state) ==
  /\ Range(state.discardPileIds) \subseteq allQuestions
  /\ \A c \in Categories : Range(state.usedQuestionsByCategory[c]) \subseteq allQuestions
  /\ state.currentQuestionId \in allQuestions \cup {NullId}

\* C15: loadPersistedGameState() right after savePersistedGameState(s)
\* returns a snapshot equal to s, for every s with schemaVersion 1 whose
\* question ids are all in the catalog.
C15_LoadAfterSave ==
  (/\ last.op = "loadPersistedGameState"
   /\ last.arg.saved # <<>>
   /\ last.arg.saved[1].schemaVersion = SchemaVersion
   /\ IdsInCatalog(last.arg.saved[1])) =>
     /\ last.ret # <<>>
     /\ JSON_parse(last.ret[1]) = last.arg.saved[1]
     /\ stored = last.arg.entry

\* a snapshot with a null and a non-null id, an empty session id and a
\* cursor outside the pile was saved and loaded
C15_Witness ==
  /\ last.op = "loadPersistedGameState"
  /\ last.arg.saved # <<>>
  /\ IdsInCatalog(last.arg.saved[1])
  /\ last.arg.saved[1].sessionId = ""
  /\ last.arg.saved[1].currentQuestionId = NullId
  /\ last.arg.saved[1].discardPileIds # <<>>
  /\ last.arg.saved[1].discardActiveIndex < 0
  /\ last.ret # <<>>

\* the types the PersistedGameState interface gives the fields
WellShaped(doc) ==
  /\ doc.schemaVersion.t = "number"
  /\ doc.sessionId.t = "string"
  /\ doc.selectedCategoryId.t \in {"string", "null"}
  /\ doc.currentQuestionId.t \in {"number", "null"}
  /\ doc.isFlipped.t = "boolean"
  /\ doc.hasRevealedAnswer.t = "boolean"
  /\ doc.usedQuestionsByCategory.t = "object"
  /\ \A c \in Categories : doc.usedQuestionsByCategory.o[c].t = "array"
  /\ doc.discardPileIds.t = "array"
  /\ doc.discardActiveIndex.t = "number"
  /\ doc.lastOutcome.t \in {"string", "null"}
  /\ doc.flowStep.t = "string"
  /\ doc.chooseCategoryMode.t \in {"string", "null"}
  /\ doc.categoryResultId.t \in {"string", "null"}

\* C16: loadPersistedGameState returns null and removes the entry whenever
\* the stored document has another schemaVersion, lacks a field, has a field
\* of the wrong type, or has a non-array for the pile or for a used list.
C16_LoadRejectsMalformed ==
  (/\ last.op = "loadPersistedGameState"
   /\ last.arg.entry # <<>>
   /\ \/ ~WellShaped(last.arg.entry[1])
      \/ last.arg.entry[1].schemaVersion.n # SchemaVersion) =>
     /\ last.ret = <<>>
     /\ stored = <<>>

\* C17: hydration from a snapshot drops every question id that is not in the
\* catalog from the consumed sets and from the history, clears a current
\* question that is not in the catalog and then sets flowStep to dice; and
\* every snapshot written to storage from then on has only catalog ids.
C17_HydrateRepairs ==
  [][/\ (hydratePc = "loading" /\ loadPersistedGameState # <<>>) =>
          LET persisted == JSON_parse(stored[1]) IN
          /\ Range(discardPile') \subseteq allQuestions
          /\ \A c \in Categories :
               Range(usedQuestionsByCategory'[c]) \subseteq allQuestions
          /\ persisted.currentQuestionId \notin allQuestions \cup {NullId} =>
               currentQuestionId' = NullId /\ flowStep' = "dice"
          /\ persisted.currentQuestionId \in allQuestions =>
               currentQuestionId' = persisted.currentQuestionId
     /\ (stored' # stored /\ stored' # <<>>) => IdsInCatalog(JSON_parse(stored'[1]))
    ]_vars

\* a stale current question was cleared, stale ids were dropped from the
\* history and the consumed set, and the repaired snapshot is in storage
C17_Witness ==
  /\ hydratePc = "saving"
  /\ currentQuestionId = NullId
  /\ flowStep = "dice"
  /\ discardPile = <<1>>
  /\ usedQuestionsByCategory["prylar"] = <<1>>
  /\ stored # <<>>
  /\ JSON_parse(stored[1]).discardPileIds = <<1>>

\* content repair changed something in the snapshot
RepairChanged(persisted) ==
  \/ cleanedDiscardPile(persisted) # persisted.discardPileIds
  \/ cleanedUsedQuestions(persisted) # persisted.usedQuestionsByCategory
  \/ validCurrentQuestionId(persisted) # persisted.currentQuestionId

\* C18: whenever hydration drops a stale id from a consumed set or from the
\* history, or clears the current question, the storage entry it leaves is
\* the repaired snapshot, written by hydration itself.
C18_RepairSavedByHydrate ==
  [][(/\ hydratePc = "loading"
      /\ loadPersistedGameState # <<>>
      /\ RepairChanged(JSON_parse(stored[1])))
     => /\ stored' # <<>>
        /\ IdsInCatalog(JSON_parse(stored'[1]))
        /\ hydratePc' = "saving"
    ]_vars

\* C19: at most one save timer is pending at any moment, and when the timer
\* of a burst of mutations fires, no other timer is left and the snapshot it
\* writes is the state as of the last mutation of the burst.
C19_BurstCollapsesToLatest ==
  /\ Cardinality(timers) <= 1
  /\ (last.op = "saveTimer" /\ isHydrated /\ EffectsFlushed) =>
       /\ timers = {}
       /\ stored = savePersistedGameState(buildPersistedState)

\* endGame has removed the storage entry and no startNewGame has begun since
KeyClearedByEndGame ==
  /\ isHydrated
  /\ stored = <<>>
  /\ \/ inFlight = "endGame"
     \/ inFlight = "none" /\ sessionId = ""

\* C20: once endGame has removed the storage entry, no save scheduled before
\* it writes afterwards: the entry stays absent until startNewGame writes a
\* new session, however the pending timer interleaves with endGame.
C20_NoWriteAfterEndGame ==
  [][KeyClearedByEndGame => stored' = <<>>]_vars

\* the in-memory session a hydrate leaves when its storage calls succeed
HydratedAsStored ==
  LET loaded == loadPersistedGameState IN
  IF loaded = <<>>
  THEN UNCHANGED <<sessionId, discardPile, usedQuestionsByCategory, currentQuestionId,
                   flowStep, gameState>>
  ELSE LET persisted == JSON_parse(loaded[1]) IN
       /\ sessionId' = persisted.sessionId
       /\ discardPile' = cleanedDiscardPile(persisted)
       /\ usedQuestionsByCategory' = cleanedUsedQuestions(persisted)
       /\ currentQuestionId' = validCurrentQuestionId(persisted)
       /\ flowStep' = validFlowStep(persisted)

\* C21: a failing storage get, set or remove is never fatal: the operation
\* that made the call completes, the in-memory session is the one a successful
\* call leaves, and the next successful write of a running session stores the
\* then-current state.
C21_StorageFailureHarmless ==
  [][/\ hydratePc = "loading" => (hydratePc' # "threw" /\ HydratedAsStored)
     /\ (inFlight = "none" /\ inFlight' = "startNewGame") => UNCHANGED engineVars
     /\ (inFlight = "none" /\ inFlight' = "endGame") => UNCHANGED engineVars
     /\ (inFlight = "startNewGame" /\ inFlight' = "none") =>
          (sessionId' = "generated" /\ flowStep' = "dice" /\ discardPile' = <<>>)
     /\ (last'.op = "saveTimer" /\ last' # last) =>
          /\ UNCHANGED engineVars
          /\ (last'.ret = "ok" /\ sessionId # "") =>
               stored' = savePersistedGameState(buildPersistedState)
    ]_vars

\* C22: hydration always ends in the ready state: whatever the storage entry
\* is (absent, not JSON, another schema version, fields of the wrong shape)
\* and whether or not the read fails, isHydrated eventually becomes true.
C22_HydrationEndsReady == <>isHydrated

\* a hydrated session is running
ActiveSession == isHydrated /\ sessionId # ""

\* the storage entry is the snapshot of the in-memory state
Synced == stored = savePersistedGameState(buildPersistedState)

\* hydrate of the storage entry restores the flowStep and the current card
ResumesSame ==
  LET persisted == JSON_parse(stored[1]) IN
  /\ validFlowStep(persisted) = flowStep
  /\ validCurrentQuestionId(persisted) = currentQuestionId

\* C23: in a hydrated running session, once no further mutation occurs the
\* storage entry eventually equals the in-memory state (flowStep, current
\* question, topic, flags, consumed lists, history, cursor) and stays so, and
\* a hydrate of that entry resumes with the same flowStep and current card.
C23_EventuallyPersisted ==
  <>[][buildPersistedState' = buildPersistedState /\ inFlight' = inFlight]_vars
    => <>[](ActiveSession => (Synced /\ ResumesSame))

\* a running session with a history and a current card is in storage as the
\* debounced write left it
C23_Witness ==
  /\ ActiveSession
  /\ last.op = "saveTimer"
  /\ discardPile # <<>>
  /\ currentQuestionId # NullId
  /\ Synced

\* C24: in every state, for each topic, getRemainingCards(topic) plus the
\* number of distinct ids in the topic's consumed list is the number of
\* catalog questions of the topic.
C24_RemainingPlusConsumed ==
  isHydrated =>
    \A c \in Categories :
      getRemainingCards(c) + Cardinality(Range(usedQuestionsByCategory[c]))
        = getTotalQuestionsInCategory(c)

\* C25: in every state, every id in a topic's consumed list is the id of a
\* catalog question of that topic.
C25_ConsumedOfOwnTopic ==
  isHydrated =>
    \A c \in Categories : \A q \in Range(usedQuestionsByCategory[c]) :
      q \in allQuestions /\ CategoryOf(q) = c

\* C26: in every state, a non-null currentQuestionId is a catalog question
\* that is not in the consumed list of its topic.
C26_CurrentNotConsumed ==
  (isHydrated /\ currentQuestionId # NullId) =>
    /\ currentQuestionId \in allQuestions
    /\ ~Includes(usedQuestionsByCategory[CategoryOf(currentQuestionId)], currentQuestionId)

\* C27: with an empty discard pile getCurrentDiscardCard() returns null, and
\* navigateDiscardPile(+1) and navigateDiscardPile(-1) return null and leave
\* the cursor and the pile unchanged.
C27_EmptyPileNavigation ==
  [][/\ discardPile' = <<>> => getDiscardCard(discardPile', discardIndex') = NullId
     /\ (discardPile = <<>> /\ last'.op = "navigateDiscardPile") =>
          /\ discardIndex' = discardIndex
          /\ discardPile' = discardPile
          /\ last'.ret = NullId
    ]_vars

\* goOlder was called on the empty pile of a new game
C27_Witness ==
  /\ last.op = "navigateDiscardPile"
  /\ last.arg = 1
  /\ discardPile = <<>>
  /\ discardIndex = 0
  /\ getCurrentDiscardCard = NullId

\* C28: in every state of a game that starts from a new game, is played with
\* draws, completions and reshuffles, and is relaunched from the snapshots
\* it wrote, every id in a topic's consumed list is in the discard pile.
C28_ConsumedInHistory ==
  \A c \in Categories : Range(usedQuestionsByCategory[c]) \subseteq Range(discardPile)

\* a relaunch has restored a session with a completed question
C28_Witness ==
  /\ last.op = "hydrate"
  /\ isHydrated
  /\ usedQuestionsByCategory["prylar"] # <<>>
  /\ \A c \in Categories : Range(usedQuestionsByCategory[c]) \subseteq Range(discardPile)

\* C29: after endGame, currentQuestionId and the selected topic stay null
\* until startNewGame, even when the timers of a roll that was in flight fire
\* after endGame
C29_RollInFlightAtEndGame ==
  (gameState = "idle" /\ inFlight = "none") =>
    (currentQuestionId = NullId /\ currentCategory = Null)

\* the session in memory and the snapshot in storage are the game startNewGame set up
FreshGame ==
  /\ sessionId = "generated"
  /\ gameState = "playing"
  /\ usedQuestionsByCategory = EmptyUsed
  /\ discardPile = <<>>
  /\ currentQuestionId = NullId
  /\ flowStep = "dice"
  /\ stored = savePersistedGameState(newGameState)

\* C30: when startNewGame was invoked while the startup load was in flight,
\* the step that finishes the later of the two leaves the fresh game in
\* memory and in storage, whatever the order of their steps
C30_StartDuringLoadWins ==
  [][(/\ ~(isHydrated /\ inFlight = "none")
      /\ isHydrated' /\ inFlight' = "none"
      /\ (inFlight = "startNewGame" \/ sessionId = "generated"))
       => FreshGame']_vars

====
